---- MODULE Spec2Model ----
\* Model of image_descent.ImageDescent (src/image_descent/image_descent.py):
\* the descent driver that turns an image into a loss landscape, keeps a
\* trainable position and, at every step, writes an interpolated gradient into
\* the position's gradient slot and records (position, loss) history.
\*
\* Numbers.  Python floats are modelled as exact fixed-point integers:
\*   - a normalized coordinate c is held as c * Q      (Q: see below)
\*   - an interpolated value v is held as v * W * W    (W = 2 * Q)
\* float32 rounding is not modelled.
EXTENDS Integers, Sequences, FiniteSets, TLC

\* ---------------------------------------------------------------- bounds
\* Largest number of step()/step_nograd() calls made on one driver.
MaxSteps == 2

\* ------------------------------------------------------ program constants
\* scale = 100 (default of the constructor)
DefaultScale == 100

\* Python's None, and a value x held where None may be held instead.
None == [some |-> FALSE]

Some(x) == [some |-> TRUE, v |-> x]

\* ------------------------------------------------------------- utilities
Reversed(s) == [i \in 1..Len(s) |-> s[Len(s) + 1 - i]]

Last(s) == s[Len(s)]

IsPrefix(s, t) == Len(s) <= Len(t) /\ \A i \in 1..Len(s) : s[i] = t[i]

MinOf(a, b) == IF a <= b THEN a ELSE b

MaxOf(a, b) == IF a >= b THEN a ELSE b

\* shape of a 2-D field held as a sequence of rows
ShapeOf(f) == <<Len(f), Len(f[1])>>

\* ------------------------------------------------------------ test inputs
\* The prepared image (output of loader and smooth_fn): 2 rows, 4 columns,
\* different slopes along the two axes.
TestImage == << <<0, 1, 3, 6>>, <<2, 5, 4, 8>> >>

\* Fixed-point denominator of normalized coordinates: the least q such that
\* every pixel index of TestImage converts to a whole number of 1/q.
Q == CHOOSE q \in 1..8 :
        /\ \A k \in 1..2 : (2 * q) % ShapeOf(TestImage)[k] = 0
        /\ \A r \in 1..(q - 1) : \E k \in 1..2 : (2 * r) % ShapeOf(TestImage)[k] # 0

\* Denominator of one interpolation weight.
W == 2 * Q

\* ------------------------------------------------ hooks (caller-supplied)
\* Image hooks.  "flipud" reverses the rows.  "gain" is a per-step
\* perturbation whose result depends on how often it has been invoked (n is
\* the number of the invocation), like a random transform: pixel * (n + 1).
ImgHook(h, img, n) ==
    IF h = "flipud" THEN Reversed(img)
    ELSE IF h = "gain" THEN [r \in 1..Len(img) |-> [c \in 1..Len(img[r]) |-> img[r][c] * (n + 1)]]
    ELSE img

\* Gradient hooks act on the tuple of per-axis arrays, element by element.
GradHook(h, gs, n) ==
    IF h = "twice" THEN [k \in 1..Len(gs) |-> [r \in 1..Len(gs[k]) |-> [c \in 1..Len(gs[k][r]) |-> 2 * gs[k][r][c]]]]
    ELSE IF h = "neg" THEN [k \in 1..Len(gs) |-> [r \in 1..Len(gs[k]) |-> [c \in 1..Len(gs[k][r]) |-> 0 - gs[k][r][c]]]]
    ELSE gs

\* python_tools.Compose: Compose(None) and Compose([]) hold no function.
Compose(fns) == IF fns.some THEN fns.v ELSE <<>>

RECURSIVE ComposeImg(_, _, _)
\* Compose(fns)(img): the functions applied in the order supplied.
ComposeImg(fns, img, n) ==
    IF Len(fns) = 0 THEN img
    ELSE ComposeImg(Tail(fns), ImgHook(Head(fns), img, n), n)

RECURSIVE ComposeGrad(_, _, _)
\* Compose(fns)(gradients)
ComposeGrad(fns, gs, n) ==
    IF Len(fns) = 0 THEN gs
    ELSE ComposeGrad(Tail(fns), GradHook(Head(fns), gs, n), n)

\* ------------------------------------------- pluggable numeric functions
\* gradients.get_gradients_by_shifting: for axis k, field[idx + 1 along k] -
\* field[idx]; 0 on the last index of the axis.  Axis 0 first.
GradFn(img) ==
    LET H == Len(img)
        Wd == Len(img[1])
    IN << [r \in 1..H |-> [c \in 1..Wd |-> IF r < H THEN img[r + 1][c] - img[r][c] ELSE 0]],
          [r \in 1..H |-> [c \in 1..Wd |-> IF c < Wd THEN img[r][c + 1] - img[r][c] ELSE 0]] >>

\* Position of coordinate c (in 1/Q) on an axis of size s, in units of 1/W of
\* an index, clamped to the axis: -1 is index 0 and +1 is index s - 1.
AxisPos(c, s) == MaxOf(0, MinOf(W * (s - 1), (c + Q) * (s - 1)))

\* Lower grid index (0-based) of the cell enclosing AxisPos.
AxisLo(c, s) == IF s = 1 THEN 0 ELSE MinOf(s - 2, AxisPos(c, s) \div W)

\* interpolation.get_interpolated_value_torch: bilinear interpolation of a
\* 2-D field at coords (coords[k] runs along axis k - 1).  Result * W * W.
Interp(f, coords) ==
    LET s   == ShapeOf(f)
        lo0 == AxisLo(coords[1], s[1])
        lo1 == AxisLo(coords[2], s[2])
        fr0 == AxisPos(coords[1], s[1]) - lo0 * W
        fr1 == AxisPos(coords[2], s[2]) - lo1 * W
        hi0 == MinOf(s[1] - 1, lo0 + 1)
        hi1 == MinOf(s[2] - 1, lo1 + 1)
    IN   (W - fr0) * (W - fr1) * f[lo0 + 1][lo1 + 1]
       + (W - fr0) * fr1       * f[lo0 + 1][hi1 + 1]
       + fr0       * (W - fr1) * f[hi0 + 1][lo1 + 1]
       + fr0       * fr1       * f[hi0 + 1][hi1 + 1]

\* The interpolation raises when the position's dimensionality disagrees
\* with the field's.
InterpRaises(f, coords) == Len(coords) # Len(ShapeOf(f))

\* Signed distance of coordinate c (in 1/Q) from the domain [-1, 1].
Excursion(c) == IF c > Q THEN c - Q ELSE IF c < 0 - Q THEN c + Q ELSE 0

\* gradients.out_of_bounds_hard: a component whose axis is outside [-1, 1] is
\* replaced by a fixed-magnitude value (one unit, W * W) whose sign makes a
\* descent update move back towards the domain.
out_of_bounds_hard(coords, grad) ==
    [k \in 1..Len(grad) |->
        IF Excursion(coords[k]) > 0 THEN W * W
        ELSE IF Excursion(coords[k]) < 0 THEN 0 - (W * W)
        ELSE grad[k]]

\* gradients.out_of_bounds_soft: raw gradient plus a restoring term
\* proportional to the excursion.
out_of_bounds_soft(coords, grad) ==
    [k \in 1..Len(grad) |-> grad[k] + W * W * Excursion(coords[k])]

OutOfBounds(fn, coords, grad) ==
    IF fn = "hard" THEN out_of_bounds_hard(coords, grad) ELSE out_of_bounds_soft(coords, grad)


\* ------------------------------------------------------------ the driver
\* Integer pixel coordinates into normalized space: ((i / s) * 2) - 1 for
\* i, s in zip(coords, shape); zip stops at the shorter of the two.
PixelToNormalized(coords, shape) ==
    [k \in 1..MinOf(Len(coords), Len(shape)) |-> ((coords[k] * 2 * Q) \div shape[k]) - Q]

\* rel2abs: normalized coordinates back to pixel coordinates, ((c + 1) / 2) * s
\* (result in units of 1 / W of a pixel).
rel2abs(coord, shape) ==
    [k \in 1..MinOf(Len(coord), Len(shape)) |-> (coord[k] + Q) * shape[k]]

\* tuple(reversed([... for i in Compose(self.grad_fn)(image)]))
GradientsOf(image) == Reversed(GradFn(image))

\* Fault variant of StepGradientsOf: the recomputed arrays are kept in the
\* order grad_fn returned them.
StepGradientsOf_unreversed(image) == GradFn(image)

\* What the step recomputation does with the freshly computed gradients.
StepGradientsOf(image) == Reversed(GradFn(image))

\* self.img_step: a Compose object when img_step is given, else None.
ImgStepField(img_step) == IF img_step.some THEN Some(Compose(img_step)) ELSE None

\* ImageDescent.__init__.  a: the constructor's arguments; a.image is the
\* image as loaded and smoothed, a.coords = [kind, val] the coordinates given.
Construct(a) ==
    LET image0    == a.image
        coords    == IF a.coords.kind = "int"
                     THEN PixelToNormalized(a.coords.val, ShapeOf(image0))
                     ELSE a.coords.val
        image     == ComposeImg(Compose(a.img_init), image0, 0)
        gradients == ComposeGrad(Compose(a.grad_init), GradientsOf(image), 0)
    IN [scale          |-> a.scale,
        outofbounds_fn |-> a.outofbounds_fn,
        ndim           |-> Len(ShapeOf(image0)),
        shape          |-> ShapeOf(image0),
        coords         |-> coords,
        grad           |-> None,
        image          |-> image,
        gradients      |-> gradients,
        img_step       |-> ImgStepField(a.img_step),
        grad_step      |-> Compose(a.grad_step),
        coords_history |-> <<>>,
        loss_history   |-> <<>>,
        _image         |-> None,
        _gradients     |-> None,
        n_img_step     |-> 0,
        n_grad_fn      |-> 1]

\* _image_gradient_fn_step.  n_img_step / n_grad_fn count the invocations of
\* the img_step pipeline and of grad_fn.
ImageGradientFnStep(d) ==
    IF d.img_step.some
    THEN LET image == ComposeImg(d.img_step.v, d.image, d.n_img_step + 1)
         IN [image      |-> image,
             gradients  |-> ComposeGrad(d.grad_step, StepGradientsOf(image), 0),
             n_img_step |-> d.n_img_step + 1,
             n_grad_fn  |-> d.n_grad_fn + 1]
    ELSE [image      |-> d.image,
          gradients  |-> ComposeGrad(d.grad_step, d.gradients, 0),
          n_img_step |-> d.n_img_step,
          n_grad_fn  |-> d.n_grad_fn]

\* Fault variant of DetachCpuClone: .clone() left out, so that the tensor
\* put into the history shares the storage of self.coords.
DetachCpuClone_sharing_storage(coords) == [shares |-> TRUE, data |-> coords]

\* self.coords.detach().cpu().clone(): a tensor of its own.  shares = TRUE
\* would be a tensor on the storage of self.coords.
DetachCpuClone(coords) == [shares |-> FALSE, data |-> coords]

\* The value read from a tensor held in coords_history.
TensorValue(t, coords) == IF t.shares THEN coords ELSE t.data

\* grad * self.scale
Scaled(grad, scale) == [k \in 1..Len(grad) |-> grad[k] * scale]

\* Fault variant of Accumulate: the slot is overwritten.
Accumulate_overwriting(slot, grad, scale) == Some(Scaled(grad, scale))

\* if self.coords.grad is None: self.coords.grad = grad * self.scale
\* else: self.coords.grad += grad * self.scale
Accumulate(slot, grad, scale) ==
    IF ~slot.some THEN Some(Scaled(grad, scale))
    ELSE Some([k \in 1..Len(slot.v) |-> slot.v[k] + Scaled(grad, scale)[k]])

\* Fault variant of StoreStepResult: the per-step image and gradients are
\* stored over the base image and the cached gradients.
StoreStepResult_over_base(d, st) ==
    [d EXCEPT !.image = st.image, !.gradients = st.gradients,
              !._image = Some(st.image), !._gradients = Some(st.gradients),
              !.n_img_step = st.n_img_step, !.n_grad_fn = st.n_grad_fn]

\* self._image, self._gradients = self._image_gradient_fn_step()
StoreStepResult(d, st) ==
    [d EXCEPT !._image = Some(st.image), !._gradients = Some(st.gradients),
              !.n_img_step = st.n_img_step, !.n_grad_fn = st.n_grad_fn]

\* Fault variant of GradUpdate: the gradient is scaled before the
\* out-of-bounds policy sees it.
GradUpdate_scaling_first(d, grad) ==
    Accumulate(d.grad, OutOfBounds(d.outofbounds_fn, d.coords, Scaled(grad, d.scale)), 1)

\* grad = self.outofbounds_fn(coords_detached, grad), then the accumulation
\* of grad * self.scale: the new value of coords.grad.
GradUpdate(d, grad) ==
    Accumulate(d.grad, OutOfBounds(d.outofbounds_fn, d.coords, grad), d.scale)

\* ImageDescent.forward.  Result: obj, the object after the call; raised;
\* ret, the loss returned; grad / adj, the locals before and after the
\* out-of-bounds policy.
Forward(d) ==
    LET st == ImageGradientFnStep(d)
        d1 == StoreStepResult(d, st)
        cd == DetachCpuClone(d.coords)
        d2 == [d1 EXCEPT !.coords_history = Append(@, cd)]
    IN IF InterpRaises(st.gradients[1], d.coords) \/ InterpRaises(st.image, d.coords)
       THEN [obj |-> d2, raised |-> TRUE, ret |-> None, grad |-> None, adj |-> None]
       ELSE LET grad == [i \in 1..d.ndim |-> Interp(st.gradients[i], d.coords)]
                adj  == OutOfBounds(d.outofbounds_fn, d.coords, grad)
                loss == Interp(st.image, d.coords)
            IN [obj    |-> [d2 EXCEPT !.grad = GradUpdate(d, grad),
                                      !.loss_history = Append(@, loss)],
                raised |-> FALSE, ret |-> Some(loss), grad |-> Some(grad), adj |-> Some(adj)]

\* ImageDescent.forward_nograd
ForwardNograd(d) ==
    LET st == ImageGradientFnStep(d)
        d1 == [d EXCEPT !.n_img_step = st.n_img_step, !.n_grad_fn = st.n_grad_fn]
        cd == DetachCpuClone(d.coords)
        d2 == [d1 EXCEPT !.coords_history = Append(@, cd)]
    IN IF InterpRaises(st.image, d.coords)
       THEN [obj |-> d2, raised |-> TRUE, ret |-> None, grad |-> None, adj |-> None]
       ELSE LET loss == Interp(st.image, d.coords)
            IN [obj    |-> [d2 EXCEPT !.loss_history = Append(@, loss)],
                raised |-> FALSE, ret |-> Some(loss), grad |-> None, adj |-> None]

\* step / step_nograd
step(d) == Forward(d)

\* Fault variant of step_nograd: it runs forward.
step_nograd_through_forward(d) == Forward(d)

step_nograd(d) == ForwardNograd(d)

\* ------------------------------------------------------ constructor inputs
\* A hook set: not given, an empty sequence, or one function.
HookChoices(h) == {None, Some(<<>>), Some(<<h>>)}

\* Coordinates given to the constructor: integer pixel coordinates (the last
\* pixel of axis 0 and the first of axis 1), floats in normalized space (in
\* 1/Q), and a float position of three components for the two-dimensional
\* image.
CoordChoices ==
    { [kind |-> "int",   val |-> <<1, 0>>],
      [kind |-> "float", val |-> <<1, 0 - 2>>],
      [kind |-> "float", val |-> <<0, 0, 0>>] }

NumGiven(a) ==
    Cardinality({f \in {"img_init", "img_step", "grad_init", "grad_step"} : a[f].some})

\* The constructor arguments explored: at most one hook set is given, or
\* img_step and grad_init are given together.
ArgChoices ==
    { a \in [image          : {TestImage},
             coords         : CoordChoices,
             scale          : {1, DefaultScale},
             outofbounds_fn : {"hard", "soft"},
             img_init       : HookChoices("flipud"),
             img_step       : HookChoices("gain"),
             grad_init      : HookChoices("twice"),
             grad_step      : HookChoices("neg")] :
          \/ NumGiven(a) <= 1
          \/ NumGiven(a) = 2 /\ a.img_step.some /\ a.grad_init.some }

\* The arguments with every empty hook sequence replaced by None.
NoneForEmpty(a) ==
    LET n(h) == IF h.some /\ Len(h.v) = 0 THEN None ELSE h
    IN [a EXCEPT !.img_init = n(@), !.img_step = n(@), !.grad_init = n(@), !.grad_step = n(@)]

\* Values an optimizer may move a position of n components to (in 1/Q): a
\* point inside the domain off the grid, and one outside it along axis 0.
OptPositions(n) ==
    IF n = 2 THEN { <<1, 0 - 1>>, <<3, 0>> } ELSE { [k \in 1..n |-> 0], [k \in 1..n |-> 1] }

\* ------------------------------------------------------------------ state
VARIABLES
    args,       \* the constructor's arguments
    self,       \* the ImageDescent object
    doubled,    \* an ImageDescent built from args with scale doubled
    plain,      \* an ImageDescent built from NoneForEmpty(args)
    op,         \* the operation performed last
    calls,      \* one record per step()/step_nograd() call made on self
    reset_at    \* Len(calls) when the gradient slot was last reset to None

vars == <<args, self, doubled, plain, op, calls, reset_at>>

Init ==
    /\ args \in ArgChoices
    /\ self = Construct(args)
    /\ doubled = Construct([args EXCEPT !.scale = 2 * @])
    /\ plain = Construct(NoneForEmpty(args))
    /\ op = "__init__"
    /\ calls = <<>>
    /\ reset_at = 0

\* The record kept of one call: the position and the slot when it started,
\* and what it did.
CallRecord(name, d, r) ==
    [op |-> name, pos |-> d.coords, slot |-> d.grad, raised |-> r.raised,
     ret |-> r.ret, grad |-> r.grad, adj |-> r.adj,
     img_step_calls |-> r.obj.n_img_step - d.n_img_step,
     grad_fn_calls  |-> r.obj.n_grad_fn - d.n_grad_fn]

\* step() on the three drivers
Step ==
    /\ Len(self.coords_history) < MaxSteps
    /\ self' = step(self).obj
    /\ doubled' = step(doubled).obj
    /\ plain' = step(plain).obj
    /\ op' = "step"
    /\ calls' = Append(calls, CallRecord("step", self, step(self)))
    /\ UNCHANGED <<args, reset_at>>

\* step_nograd() on the three drivers
StepNograd ==
    /\ Len(self.coords_history) < MaxSteps
    /\ self' = step_nograd(self).obj
    /\ doubled' = step_nograd(doubled).obj
    /\ plain' = step_nograd(plain).obj
    /\ op' = "step_nograd"
    /\ calls' = Append(calls, CallRecord("step_nograd", self, step_nograd(self)))
    /\ UNCHANGED <<args, reset_at>>

\* The attached optimizer updates the position in place (any update rule).
OptimizerStep ==
    \E p \in OptPositions(Len(self.coords)) :
        /\ p # self.coords
        /\ self' = [self EXCEPT !.coords = p]
        /\ doubled' = [doubled EXCEPT !.coords = p]
        /\ plain' = [plain EXCEPT !.coords = p]
        /\ op' = "optimizer.step"
        /\ UNCHANGED <<args, calls, reset_at>>

\* optimizer.zero_grad(): the gradient slot is reset to None.
ZeroGrad ==
    /\ self.grad.some
    /\ self' = [self EXCEPT !.grad = None]
    /\ doubled' = [doubled EXCEPT !.grad = None]
    /\ plain' = [plain EXCEPT !.grad = None]
    /\ op' = "optimizer.zero_grad"
    /\ reset_at' = Len(calls)
    /\ UNCHANGED <<args, calls>>

Next == Step \/ StepNograd \/ OptimizerStep \/ ZeroGrad

Spec == Init /\ [][Next]_vars

\* ============================================================ properties
\* The calls made so far all returned.
AllReturned == \A i \in 1..Len(calls) : ~calls[i].raised

\* The call made last was op name and returned.
Returned(name) == op = name /\ Len(calls) > 0 /\ ~Last(calls).raised

\* The values read now from the tensors of coords_history.
CoordsHistoryValues(d) ==
    [i \in 1..Len(d.coords_history) |-> TensorValue(d.coords_history[i], d.coords)]

\* ---- C1
HistoryMatchesCalls ==
    AllReturned =>
        /\ Len(self.coords_history) = Len(calls)
        /\ Len(self.loss_history) = Len(calls)
        /\ \A i \in 1..Len(calls) :
              /\ CoordsHistoryValues(self)[i] = calls[i].pos
              /\ self.loss_history[i] = calls[i].ret.v

HistoryOnlyGrows ==
    /\ IsPrefix(CoordsHistoryValues(self), CoordsHistoryValues(self)')
    /\ IsPrefix(self.loss_history, self'.loss_history)

\* C1: after K calls of step()/step_nograd() in any mix, all of which
\* returned, coords_history and loss_history hold K entries each, the i-th
\* position entry reads as the value Position had when the i-th call started
\* (whatever the optimizer did to Position since) and the i-th loss entry is
\* the loss the i-th call returned; no entry is ever removed or reordered.
C1_HistoryInCallOrder == []HistoryMatchesCalls /\ [][HistoryOnlyGrows]_vars

\* A mix of step() and step_nograd() has run, and the optimizer has moved
\* Position since the first call.
C1_Witness ==
    /\ AllReturned
    /\ Len(calls) = 2
    /\ calls[1].op # calls[2].op
    /\ self.coords # calls[1].pos

\* ---- C2
\* The step() calls that returned since the slot was last reset.
StepsSinceReset ==
    {i \in (reset_at + 1)..Len(calls) : calls[i].op = "step" /\ ~calls[i].raised}

RECURSIVE SumScaledAdj(_, _)
\* Component k of the sum of scale * adjusted gradient over the calls in S.
SumScaledAdj(S, k) ==
    IF S = {} THEN 0
    ELSE LET i == CHOOSE j \in S : TRUE
         IN calls[i].adj.v[k] * self.scale + SumScaledAdj(S \ {i}, k)

SlotIsSumSinceReset ==
    IF StepsSinceReset = {} THEN self.grad = None
    ELSE self.grad = Some([k \in 1..self.ndim |-> SumScaledAdj(StepsSinceReset, k)])

StepAddsToSlot ==
    (op' = "step" /\ ~Last(calls').raised) =>
        LET adj == Last(calls').adj.v
        IN self'.grad =
              IF self.grad = None
              THEN Some([k \in 1..Len(adj) |-> adj[k] * self.scale])
              ELSE Some([k \in 1..Len(adj) |-> self.grad.v[k] + adj[k] * self.scale])

\* C2: step() adds scale * adjusted gradient to the gradient slot of
\* Position (the slot becomes that value when it was None), so the slot
\* equals the sum of the scaled adjusted gradients of the step() calls made
\* since it was last reset to None.
C2_GradientAccumulates == []SlotIsSumSinceReset /\ [][StepAddsToSlot]_vars

\* Two step() calls in a row with no reset, each with a non-zero adjusted
\* gradient.
C2_Witness ==
    /\ Len(calls) = 2
    /\ reset_at = 0
    /\ \A i \in 1..2 : /\ calls[i].op = "step"
                       /\ ~calls[i].raised
                       /\ \E k \in 1..2 : calls[i].adj.v[k] # 0

\* ---- C3
NogradFrame ==
    (op' = "step_nograd") =>
        /\ self'.grad = self.grad
        /\ ~Last(calls').raised =>
              /\ self' = [self EXCEPT
                            !.coords_history = Append(@, Last(self'.coords_history)),
                            !.loss_history = Append(@, Last(calls').ret.v),
                            !.n_img_step = self'.n_img_step,
                            !.n_grad_fn = self'.n_grad_fn]
              /\ TensorValue(Last(self'.coords_history), self'.coords) = self.coords

\* C3: step_nograd() leaves the gradient slot of Position as it was (None
\* when it was None); a call that returns changes nothing of the driver but
\* coords_history, which gets one snapshot of Position, and loss_history,
\* which gets the loss it returns.
C3_NogradLeavesSlot == [][NogradFrame]_vars

\* step_nograd() has returned on a driver whose slot holds a gradient.
C3_Witness ==
    /\ Returned("step_nograd")
    /\ self.grad # None
    /\ \E k \in 1..2 : self.grad.v[k] # 0

\* ---- C4
StepFrame ==
    (op' \in {"step", "step_nograd"}) =>
        /\ self'.coords = self.coords
        /\ self'.image = self.image
        /\ self'.gradients = self.gradients

\* C4: step() and step_nograd(), with the image / gradient preparation they
\* run, change neither the value of Position nor the base image nor the
\* cached gradient field.
C4_StepsReadOnly == [][StepFrame]_vars

\* step() has returned on a driver with a per-step image that differs from
\* the base image, after an earlier call at the same Position.
C4_Witness ==
    /\ Returned("step")
    /\ self._image.v # self.image
    /\ Len(calls) = 2
    /\ calls[1].pos = calls[2].pos

\* ---- C5
\* C5: a driver given empty hook sequences behaves as the driver given None
\* in their place: same per-step image, same gradient field interpolated,
\* same accumulated gradient, same loss history.
C5_EmptyHooksSameAsNone ==
    /\ self._image = plain._image
    /\ self._gradients = plain._gradients
    /\ self.grad = plain.grad
    /\ self.loss_history = plain.loss_history

\* ---- C6
\* The slot of the driver with the doubled scale is twice the slot.
SlotDoubled ==
    IF self.grad = None THEN doubled.grad = None
    ELSE doubled.grad = Some([k \in 1..Len(self.grad.v) |-> 2 * self.grad.v[k]])

\* step() added scale * policy(position, unscaled interpolated gradient).
ScaleAppliedAfterPolicy ==
    Returned("step") =>
        LET c   == Last(calls)
            adj == OutOfBounds(self.outofbounds_fn, c.pos, c.grad.v)
        IN self.grad.v = [k \in 1..self.ndim |->
                            (IF c.slot = None THEN 0 ELSE c.slot.v[k]) + self.scale * adj[k]]

\* C6: of two drivers that differ only in scale (s and 2s), stepped alike at
\* the same positions, the second has exactly twice the accumulated gradient
\* of the first after every step; the out-of-bounds policy gets the unscaled
\* interpolated gradient and the scale is applied to its result, also
\* outside [-1, 1].
C6_ScaleLinear == SlotDoubled /\ ScaleAppliedAfterPolicy

\* step() has returned at a position outside [-1, 1] and the slot holds a
\* non-zero gradient.
C6_Witness ==
    /\ Returned("step")
    /\ \E k \in 1..2 : Excursion(Last(calls).pos[k]) # 0
    /\ \E k \in 1..2 : self.grad.v[k] # 0

\* ---- C7
\* The arrays the last step() interpolated, in the order in which grad_fn
\* returned them (the gradient hooks work element by element).
ArraysInGradFnOrder ==
    IF self.img_step.some
    THEN ComposeGrad(self.grad_step, GradFn(self._image.v), 0)
    ELSE ComposeGrad(self.grad_step,
                     ComposeGrad(Compose(args.grad_init), GradFn(self.image), 0), 0)

C8_PixelEndpoints ==
    op = "__init__" =>
        IF args.coords.kind = "int"
        THEN \A k \in 1..Len(self.coords) :
                LET i == args.coords.val[k]
                    c == self.coords[k]
                IN /\ i = 0 => c = 0 - Q
                   /\ i = self.shape[k] - 1 => c = Q
                   /\ (0 < i /\ i < self.shape[k] - 1) => (0 - Q < c /\ c < Q)
        ELSE self.coords = args.coords.val

\* ---- C9
\* The image-transform pipeline does something: it is given and holds a
\* function.
ImgStepNonIdentity == self.img_step.some /\ Len(self.img_step.v) > 0

\* C9: a step invokes grad_fn if and only if the img_step pipeline is
\* non-identity; when a per-step image is produced, img_step ran once and
\* the gradient vector and the loss come from that one image.
C9_RecomputeIffNonIdentity ==
    /\ \A i \in 1..Len(calls) :
          calls[i].grad_fn_calls = (IF ImgStepNonIdentity THEN 1 ELSE 0)
    /\ (Returned("step") /\ self.img_step.some) =>
          /\ Last(calls).img_step_calls = 1
          /\ Last(calls).ret.v = Interp(self._image.v, Last(calls).pos)
          /\ \A k \in 1..self.ndim :
                Last(calls).grad.v[k] =
                    Interp(ComposeGrad(self.grad_step, Reversed(GradFn(self._image.v)), 0)[k],
                           Last(calls).pos)

\* ---- C10
\* C10: coords_history and loss_history hold one record per completed call,
\* and a call that failed left the gradient slot as it was.
C10_OneRecordPerCompletedStep ==
    /\ Len(self.coords_history) = Len(self.loss_history)
    /\ Len(self.loss_history) = Cardinality({i \in 1..Len(calls) : ~calls[i].raised})
    /\ (op \in {"step", "step_nograd"} /\ Last(calls).raised) => self.grad = Last(calls).slot

====
